---- MODULE Spec2Model ----
(***************************************************************************)
(* Pixel Physics Racer (src/game.js).  The file holds two variants of the   *)
(* game: the rolling ball (lines 1-286) and the wheeled car (lines          *)
(* 288-642).  Both stream terrain chunks ahead of the vehicle, evict the    *)
(* oldest chunk, and reset the vehicle when it falls out of the world.      *)
(*                                                                         *)
(* Matter.js is the environment: each tick Engine.update fires the          *)
(* 'beforeUpdate' event (updateGame) and then integrates the bodies.  The   *)
(* integration is a nondeterministic choice over small grids of positions   *)
(* and velocities.  Angular velocities, speeds and torques are in           *)
(* hundredths (0.4 is 40), lengths are in world units.  The heightfield     *)
(* (noise, smoothNoise, getTerrainHeight) only shapes the colliders of a    *)
(* chunk and is left out: a chunk is its horizontal span plus the handle    *)
(* of its colliders.  The audio calls change no game state and are left     *)
(* out as well.                                                            *)
(***************************************************************************)
EXTENDS Integers, Sequences, FiniteSets, TLC

VARIABLES
    variant,          \* "ball" (lines 1-286) or "car" (lines 288-642)
    pc,               \* "tick": between two engine ticks; "update": updateGame ran, integration pending
    terrainBodies,    \* queue of live chunks
    lastTerrainX,     \* right edge of the generated terrain
    world,            \* collider handles of the ground bodies in the physics world
    scrollOffset,     \* horizontal camera offset
    canvasWidth,      \* renderCanvas.width
    playerBody,       \* ball variant: the rolling ball
    chassis,          \* car variant: carBody.bodies[0]
    carWheelB,        \* car variant: rear wheel
    carWheelF,        \* car variant: front wheel
    generatedCount,   \* number of generateTerrainChunk calls so far
    oldChunk,         \* the chunk most recently shifted out of terrainBodies
    lastUpdate,       \* what the updateGame of the tick in progress did
    overspeed,        \* some integration step moved the vehicle by more than chunkWidth
    force,            \* force accumulated on playerBody / the chassis since the last integration
    keydowns,         \* Space key-down events since the last integration
    canvasHeight,     \* renderCanvas.height
    frame             \* the camera offsets renderLoop has just drawn with

vars == <<variant, pc, terrainBodies, lastTerrainX, world, scrollOffset,
          canvasWidth, playerBody, chassis, carWheelB, carWheelF,
          generatedCount, oldChunk, lastUpdate, overspeed,
          force, keydowns, canvasHeight, frame>>

----------------------------------------------------------------------------
(* Bounds of the model *)

MaxBack == 1000
MaxX == 3500
MaxJumps == 2

----------------------------------------------------------------------------
(* Program constants *)

chunkWidth_ball == 1000
chunkWidth_car == 800
ballSpeed == 40
ballTorque == 50
carSpeed == 5
initialTerrainX_ball == -800
initialTerrainX_car == 0
initialChunks == 3
retentionLimit == 5
fallThreshold == 2000
jumpForce_ball == 35
jumpForce_car == 30
verticalBias == 100

chunkWidth(v) == IF v = "ball" THEN chunkWidth_ball ELSE chunkWidth_car

----------------------------------------------------------------------------
(* Values *)

Vec(a, b) == [x |-> a, y |-> b]
Zero == Vec(0, 0)
Abs(n) == IF n < 0 THEN -n ELSE n
Add(p, q) == Vec(p.x + q.x, p.y + q.y)

NoBody == [position |-> Zero, velocity |-> Zero, angularVelocity |-> 0,
           angle |-> 0, torque |-> 0]
NoChunk == [spanStart |-> 0, spanEnd |-> 0, id |-> 0]
\* order: the parts of updateGame reached so far, in the order reached;
\* failed: generateTerrainChunk was left by an exception
NoUpdate == [generated |-> FALSE, evicted |-> FALSE, reset |-> FALSE,
             failed |-> FALSE, order |-> << >>]
NoFrame == [drawn |-> FALSE, scrollX |-> 0, scrollY |-> 0]

\* updateGame reaches the part called name
stage(name, s) == [s EXCEPT !.lastUpdate.order = Append(@, name)]

\* The globals of the program as one record, the argument and result of the
\* steps of updateGame.
Globals ==
    [terrainBodies |-> terrainBodies, lastTerrainX |-> lastTerrainX,
     world |-> world, scrollOffset |-> scrollOffset, canvasWidth |-> canvasWidth,
     playerBody |-> playerBody, chassis |-> chassis,
     carWheelB |-> carWheelB, carWheelF |-> carWheelF,
     generatedCount |-> generatedCount, oldChunk |-> oldChunk,
     lastUpdate |-> lastUpdate]

Commit(s) ==
    /\ terrainBodies' = s.terrainBodies
    /\ lastTerrainX' = s.lastTerrainX
    /\ world' = s.world
    /\ scrollOffset' = s.scrollOffset
    /\ canvasWidth' = s.canvasWidth
    /\ playerBody' = s.playerBody
    /\ chassis' = s.chassis
    /\ carWheelB' = s.carWheelB
    /\ carWheelF' = s.carWheelF
    /\ generatedCount' = s.generatedCount
    /\ oldChunk' = s.oldChunk
    /\ lastUpdate' = s.lastUpdate

----------------------------------------------------------------------------
(* Terrain *)

\* Variant of generateTerrainChunk that leaves one segment width between chunks.
generateTerrainChunk_gap(s, W) ==
    LET startX == s.lastTerrainX
        endX == startX + W
        chunk == [spanStart |-> startX, spanEnd |-> endX,
                  id |-> s.generatedCount + 1]
    IN  [s EXCEPT !.world = @ \cup {chunk.id},
                  !.terrainBodies = Append(@, chunk),
                  !.lastTerrainX = endX + 20,
                  !.generatedCount = @ + 1]

\* generateTerrainChunk: the chunk spans [lastTerrainX, lastTerrainX + chunkWidth),
\* its colliders go into the world, the chunk is pushed and the edge advances.
generateTerrainChunk(s, W) ==
    LET startX == s.lastTerrainX
        endX == startX + W
        chunk == [spanStart |-> startX, spanEnd |-> endX,
                  id |-> s.generatedCount + 1]
    IN  [s EXCEPT !.world = @ \cup {chunk.id},
                  !.terrainBodies = Append(@, chunk),
                  !.lastTerrainX = endX,
                  !.generatedCount = @ + 1]

\* for (i = 0; i < 3; i++) generateTerrainChunk()
RECURSIVE initialTerrain(_, _, _)
initialTerrain(s, W, i) ==
    IF i < initialChunks
    THEN initialTerrain(generateTerrainChunk(s, W), W, i + 1)
    ELSE s

\* Variant of infiniteTerrain without the look-ahead margin.
infiniteTerrain_nomargin(s, vehicleX, W) ==
    IF vehicleX > s.lastTerrainX
    THEN [generateTerrainChunk(s, W) EXCEPT !.lastUpdate.generated = TRUE]
    ELSE s

\* Variant of infiniteTerrain that also generates at the threshold itself.
infiniteTerrain_geq(s, vehicleX, W) ==
    IF vehicleX >= s.lastTerrainX - W * 2
    THEN [generateTerrainChunk(s, W) EXCEPT !.lastUpdate.generated = TRUE]
    ELSE s

\* updateGame, "3. Infinite Terrain": at most one chunk per step.
infiniteTerrain(s, vehicleX, W) ==
    IF vehicleX > s.lastTerrainX - W * 2
    THEN [generateTerrainChunk(s, W) EXCEPT !.lastUpdate.generated = TRUE]
    ELSE s

\* Variants of cleanupChunks: another retention limit (k), and pop() in
\* place of shift().
cleanupChunks_limit(s, k) ==
    IF Len(s.terrainBodies) > k
    THEN LET old == Head(s.terrainBodies)
         IN  [s EXCEPT !.terrainBodies = Tail(@),
                       !.world = @ \ {old.id},
                       !.oldChunk = old,
                       !.lastUpdate.evicted = TRUE]
    ELSE s
cleanupChunks_six(s) == cleanupChunks_limit(s, retentionLimit + 1)
cleanupChunks_two(s) == cleanupChunks_limit(s, retentionLimit - 3)
cleanupChunks_pop(s) ==
    IF Len(s.terrainBodies) > retentionLimit
    THEN LET old == s.terrainBodies[Len(s.terrainBodies)]
         IN  [s EXCEPT !.terrainBodies = SubSeq(@, 1, Len(@) - 1),
                       !.world = @ \ {old.id},
                       !.oldChunk = old,
                       !.lastUpdate.evicted = TRUE]
    ELSE s

\* Variant of cleanupChunks that leaves the colliders in the world.
cleanupChunks_keep(s) ==
    IF Len(s.terrainBodies) > retentionLimit
    THEN LET old == Head(s.terrainBodies)
         IN  [s EXCEPT !.terrainBodies = Tail(@),
                       !.oldChunk = old,
                       !.lastUpdate.evicted = TRUE]
    ELSE s

\* updateGame, "Cleanup chunks": a single if, terrainBodies.shift().
cleanupChunks(s) ==
    IF Len(s.terrainBodies) > retentionLimit
    THEN LET old == Head(s.terrainBodies)
         IN  [s EXCEPT !.terrainBodies = Tail(@),
                       !.world = @ \ {old.id},
                       !.oldChunk = old,
                       !.lastUpdate.evicted = TRUE]
    ELSE s

\* Variant of camera that locks the vehicle to the left edge of the canvas.
camera_left(s, vehicleX) ==
    [s EXCEPT !.scrollOffset = -vehicleX]

\* updateGame, "2. Camera"
camera(s, vehicleX) ==
    [s EXCEPT !.scrollOffset = (-vehicleX) + (s.canvasWidth \div 2)]

----------------------------------------------------------------------------
(* Ball variant *)

\* createPlayer(0, 0): Bodies.circle(x, y - 50, ...)
createPlayer(x, y) ==
    [position |-> Vec(x, y - 50), velocity |-> Zero, angularVelocity |-> 0,
     angle |-> 0, torque |-> 0]

\* Variant of jump_ball that only jumps when the ball does not move vertically.
jump_ball_grounded(s, f) ==
    IF s.playerBody.velocity.y = 0
    THEN Add(f, Vec(0, -jumpForce_ball))
    ELSE f

\* jump(): Body.applyForce(playerBody, playerBody.position, {0, -jumpForce})
\* adds to the force of the body; applied at the centre it adds no torque.
\* playerBody is set by init() before the key listener is installed, so the
\* early return is never taken.
jump_ball(s, f) == Add(f, Vec(0, -jumpForce_ball))

\* Variant of rollLogic that still applies the torque at the cap itself.
rollLogic_leq(s) ==
    IF s.playerBody.angularVelocity <= ballSpeed
    THEN [s EXCEPT !.playerBody.torque = ballTorque]
    ELSE s

\* updateGame, "1. Roll Logic (Torque)"
rollLogic(s) ==
    IF s.playerBody.angularVelocity < ballSpeed
    THEN [s EXCEPT !.playerBody.torque = ballTorque]
    ELSE s

\* Variants of resetBall: one lifts the ball by the threshold instead of
\* placing it at y = 0, one puts the ball back at the start x = 0.
resetBall_lift(s) ==
    IF s.playerBody.position.y > fallThreshold
    THEN [s EXCEPT !.playerBody.position =
                       Vec(s.playerBody.position.x,
                           s.playerBody.position.y - fallThreshold),
                   !.playerBody.velocity = Zero,
                   !.playerBody.angularVelocity = 0,
                   !.lastUpdate.reset = TRUE]
    ELSE s
resetBall_origin(s) ==
    IF s.playerBody.position.y > fallThreshold
    THEN [s EXCEPT !.playerBody.position = Vec(0, 0),
                   !.playerBody.velocity = Zero,
                   !.playerBody.angularVelocity = 0,
                   !.lastUpdate.reset = TRUE]
    ELSE s

\* updateGame, "4. Reset"
resetBall(s) ==
    IF s.playerBody.position.y > fallThreshold
    THEN [s EXCEPT !.playerBody.position = Vec(s.playerBody.position.x, 0),
                   !.playerBody.velocity = Zero,
                   !.playerBody.angularVelocity = 0,
                   !.lastUpdate.reset = TRUE]
    ELSE s

\* Variant of beforeReset_ball that cleans up before it generates.
beforeReset_ball_evictFirst(s) ==
    LET s0 == [s EXCEPT !.lastUpdate = NoUpdate]
        s1 == rollLogic(stage("drive", s0))
        s2 == camera(stage("camera", s1), s1.playerBody.position.x)
        s3 == cleanupChunks(stage("evict", s2))
    IN  stage("reset", infiniteTerrain(stage("advance", s3),
                                       s3.playerBody.position.x, chunkWidth_ball))

\* updateGame up to the reset check: roll, camera, terrain, cleanup
beforeReset_ball(s) ==
    LET s0 == [s EXCEPT !.lastUpdate = NoUpdate]
        s1 == rollLogic(stage("drive", s0))
        s2 == camera(stage("camera", s1), s1.playerBody.position.x)
        s3 == infiniteTerrain(stage("advance", s2), s2.playerBody.position.x,
                              chunkWidth_ball)
    IN  stage("reset", cleanupChunks(stage("evict", s3)))

updateGame_ball(s) == resetBall(beforeReset_ball(s))

----------------------------------------------------------------------------
(* Car variant *)

\* createCar(0, 0): chassis at (x, y - 20), wheels at (x -+ 20, y)
createChassis(x, y) ==
    [position |-> Vec(x, y - 20), velocity |-> Zero, angularVelocity |-> 0,
     angle |-> 0, torque |-> 0]
createWheel(x, y) ==
    [position |-> Vec(x, y), velocity |-> Zero, angularVelocity |-> 0,
     angle |-> 0, torque |-> 0]

\* jump(): Body.applyForce(chassis, chassis.position, {0, -jumpForce}); the
\* chassis itself is not written.
jump_car(s, f) == Add(f, Vec(0, -jumpForce_car))

\* updateGame, "1. Auto Drive"
autoDrive(s) ==
    [s EXCEPT !.carWheelB.angularVelocity = carSpeed,
              !.carWheelF.angularVelocity = carSpeed]

\* Variant of resetCar that leaves the front wheel where it was.
resetCar_rearOnly(s) ==
    IF s.chassis.position.y > fallThreshold
    THEN LET c == Vec(s.chassis.position.x, 0)
         IN  [s EXCEPT !.chassis.position = c,
                       !.chassis.velocity = Zero,
                       !.chassis.angularVelocity = 0,
                       !.carWheelB.position = Vec(c.x - 20, 20),
                       !.lastUpdate.reset = TRUE]
    ELSE s

\* updateGame, "5. Reset if fell off world".  Body.setPosition moves a body
\* and keeps its velocity; the wheels are placed from the chassis position
\* already reset.
resetCar(s) ==
    IF s.chassis.position.y > fallThreshold
    THEN LET c == Vec(s.chassis.position.x, 0)
         IN  [s EXCEPT !.chassis.position = c,
                       !.chassis.velocity = Zero,
                       !.chassis.angularVelocity = 0,
                       !.carWheelB.position = Vec(c.x - 20, 20),
                       !.carWheelF.position = Vec(c.x + 20, 20),
                       !.lastUpdate.reset = TRUE]
    ELSE s

\* updateGame up to the reset check: drive, camera, terrain, cleanup
beforeReset_car(s) ==
    LET s0 == [s EXCEPT !.lastUpdate = NoUpdate]
        s1 == autoDrive(stage("drive", s0))
        s2 == camera(stage("camera", s1), s1.chassis.position.x)
        s3 == infiniteTerrain(stage("advance", s2), s2.chassis.position.x,
                              chunkWidth_car)
    IN  stage("reset", cleanupChunks(stage("evict", s3)))

updateGame_car(s) == resetCar(beforeReset_car(s))

----------------------------------------------------------------------------
(* The physics engine: what one integration step can leave behind *)

\* Horizontal displacements of one step; the last one exceeds chunkWidth.
Displacements(W) == {-W, 0, 1, W \div 5, W, 3 * W}
OnGrid(x, W) == (x % (W \div 5)) \in {0, 1}
Heights == {0, fallThreshold, fallThreshold + 1, 2 * fallThreshold + 1}
Velocities == {Zero, Vec(5, 12)}
BallSpins == {0, ballSpeed, ballSpeed + 5}
\* (linear velocity, angular velocity) of a car body after a step
Motions == {[velocity |-> Zero, angularVelocity |-> 0],
            [velocity |-> Vec(5, 12), angularVelocity |-> 9]}
\* chassis angle in degrees with the wheel offsets that go with it
Poses == {[angle |-> 0, wheelB |-> Vec(-20, 20), wheelF |-> Vec(20, 20)],
          [angle |-> 180, wheelB |-> Vec(20, -20), wheelF |-> Vec(-20, -20)]}

VehicleX == IF variant = "ball" THEN playerBody.position.x ELSE chassis.position.x
VehicleY == IF variant = "ball" THEN playerBody.position.y ELSE chassis.position.y

----------------------------------------------------------------------------
(* Initial state: the globals after init() *)

InitGlobals(v) ==
    LET s == [terrainBodies |-> << >>,
              lastTerrainX |-> IF v = "ball" THEN initialTerrainX_ball
                                             ELSE initialTerrainX_car,
              world |-> {}, scrollOffset |-> 0, canvasWidth |-> 800,
              playerBody |-> IF v = "ball" THEN createPlayer(0, 0) ELSE NoBody,
              chassis |-> IF v = "car" THEN createChassis(0, 0) ELSE NoBody,
              carWheelB |-> IF v = "car" THEN createWheel(-20, 0) ELSE NoBody,
              carWheelF |-> IF v = "car" THEN createWheel(20, 0) ELSE NoBody,
              generatedCount |-> 0, oldChunk |-> NoChunk,
              lastUpdate |-> NoUpdate]
    IN  initialTerrain(s, chunkWidth(v), 0)

Init ==
    /\ variant \in {"ball", "car"}
    /\ pc = "tick"
    /\ overspeed = FALSE
    /\ force = Zero
    /\ keydowns = 0
    /\ canvasHeight = 600
    /\ frame = NoFrame
    /\ LET s == InitGlobals(variant)
       IN  /\ terrainBodies = s.terrainBodies
           /\ lastTerrainX = s.lastTerrainX
           /\ world = s.world
           /\ scrollOffset = s.scrollOffset
           /\ canvasWidth = s.canvasWidth
           /\ playerBody = s.playerBody
           /\ chassis = s.chassis
           /\ carWheelB = s.carWheelB
           /\ carWheelF = s.carWheelF
           /\ generatedCount = s.generatedCount
           /\ oldChunk = s.oldChunk
           /\ lastUpdate = s.lastUpdate

----------------------------------------------------------------------------
(* Actions *)

\* Events.on(engine, 'beforeUpdate', updateGame), ball variant
UpdateGameBall ==
    /\ variant = "ball"
    /\ pc = "tick"
    /\ pc' = "update"
    /\ Commit(updateGame_ball(Globals))
    /\ frame' = NoFrame
    /\ UNCHANGED <<variant, overspeed, force, keydowns, canvasHeight>>

\* Events.on(engine, 'beforeUpdate', updateGame), car variant
UpdateGameCar ==
    /\ variant = "car"
    /\ pc = "tick"
    /\ pc' = "update"
    /\ Commit(updateGame_car(Globals))
    /\ frame' = NoFrame
    /\ UNCHANGED <<variant, overspeed, force, keydowns, canvasHeight>>

\* The integration that follows 'beforeUpdate' in Engine.update; it clears
\* the torque and the force it consumed.
Integrate ==
    /\ pc = "update"
    /\ pc' = "tick"
    /\ \E dx \in Displacements(chunkWidth(variant)), y \in Heights :
         LET W == chunkWidth(variant)
             nx == VehicleX + dx
         IN  /\ nx >= -MaxBack
             /\ nx <= MaxX
             /\ OnGrid(nx, W)
             /\ overspeed' = (overspeed \/ Abs(dx) > W)
             /\ IF variant = "ball"
                THEN /\ \E v \in Velocities, w \in BallSpins :
                          playerBody' = [position |-> Vec(nx, y), velocity |-> v,
                                         angularVelocity |-> w, angle |-> 0,
                                         torque |-> 0]
                     /\ UNCHANGED <<chassis, carWheelB, carWheelF>>
                ELSE /\ \E p \in Poses, mc \in Motions, mb \in Motions, mf \in Motions :
                          /\ chassis' = [position |-> Vec(nx, y),
                                         velocity |-> mc.velocity,
                                         angularVelocity |-> mc.angularVelocity,
                                         angle |-> p.angle, torque |-> 0]
                          /\ carWheelB' = [position |-> Add(Vec(nx, y), p.wheelB),
                                           velocity |-> mb.velocity,
                                           angularVelocity |-> mb.angularVelocity,
                                           angle |-> 0, torque |-> 0]
                          /\ carWheelF' = [position |-> Add(Vec(nx, y), p.wheelF),
                                           velocity |-> mf.velocity,
                                           angularVelocity |-> mf.angularVelocity,
                                           angle |-> 0, torque |-> 0]
                     /\ UNCHANGED playerBody
    /\ lastUpdate' = NoUpdate
    /\ force' = Zero
    /\ keydowns' = 0
    /\ frame' = NoFrame
    /\ UNCHANGED <<variant, terrainBodies, lastTerrainX, world, scrollOffset,
                   canvasWidth, canvasHeight, generatedCount, oldChunk>>

Next == UpdateGameBall \/ UpdateGameCar \/ Integrate

Spec == Init /\ [][Next]_vars

----------------------------------------------------------------------------
(* Input: the keydown listener of init().  Events are delivered between     *)
(* ticks; the model stops counting at MaxJumps key-downs per tick.          *)

\* keydown with e.code === 'Space', ball variant
JumpBall ==
    /\ variant = "ball"
    /\ pc = "tick"
    /\ keydowns < MaxJumps
    /\ keydowns' = keydowns + 1
    /\ force' = jump_ball(Globals, force)
    /\ frame' = NoFrame
    /\ UNCHANGED <<variant, pc, terrainBodies, lastTerrainX, world, scrollOffset,
                   canvasWidth, playerBody, chassis, carWheelB, carWheelF,
                   generatedCount, oldChunk, lastUpdate, overspeed, canvasHeight>>

\* keydown with e.code === 'Space', car variant
JumpCar ==
    /\ variant = "car"
    /\ pc = "tick"
    /\ keydowns < MaxJumps
    /\ keydowns' = keydowns + 1
    /\ force' = jump_car(Globals, force)
    /\ frame' = NoFrame
    /\ UNCHANGED <<variant, pc, terrainBodies, lastTerrainX, world, scrollOffset,
                   canvasWidth, playerBody, chassis, carWheelB, carWheelF,
                   generatedCount, oldChunk, lastUpdate, overspeed, canvasHeight>>

NextInput == Next \/ JumpBall \/ JumpCar

\* The game with key-downs.  updateGame and the integration neither read
\* the key-down count nor depend on the force in their choices, so Spec
\* covers the same game states without them.
SpecInput == Init /\ [][NextInput]_vars

----------------------------------------------------------------------------
(* Rendering: requestAnimationFrame(renderLoop) and the resize listener.    *)
(* Both run between ticks.                                                  *)

\* window.innerWidth x window.innerHeight
WindowSizes == {[w |-> 800, h |-> 600], [w |-> 1024, h |-> 768]}

\* renderLoop: ctx.translate(scrollOffset, -position.y + centerY + 100)
renderLoop(offset, vehicleY, height) ==
    [drawn |-> TRUE, scrollX |-> offset,
     scrollY |-> (-vehicleY) + (height \div 2) + verticalBias]

RenderLoop ==
    /\ pc = "tick"
    /\ frame' = renderLoop(scrollOffset, VehicleY, canvasHeight)
    /\ UNCHANGED <<variant, pc, terrainBodies, lastTerrainX, world, scrollOffset,
                   canvasWidth, playerBody, chassis, carWheelB, carWheelF,
                   generatedCount, oldChunk, lastUpdate, overspeed,
                   force, keydowns, canvasHeight>>

\* handleResize: the canvas takes the size of the window
HandleResize ==
    /\ pc = "tick"
    /\ \E size \in WindowSizes :
         /\ canvasWidth' = size.w
         /\ canvasHeight' = size.h
    /\ frame' = NoFrame
    /\ UNCHANGED <<variant, pc, terrainBodies, lastTerrainX, world, scrollOffset,
                   playerBody, chassis, carWheelB, carWheelF,
                   generatedCount, oldChunk, lastUpdate, overspeed,
                   force, keydowns>>

NextRender == Next \/ RenderLoop \/ HandleResize

\* The game with render frames and window resizes.
SpecRender == Init /\ [][NextRender]_vars

----------------------------------------------------------------------------
(* A collider constructor that throws.  Neither generateTerrainChunk nor    *)
(* updateGame catches anything: the exception leaves both, and              *)
(* Engine.update with them, so the rest of updateGame and the integration   *)
(* of that tick do not run.  The runner has requested its next frame        *)
(* before the tick, so the next tick starts as usual.                       *)

\* generateTerrainChunk left by an exception: nothing is pushed and
\* lastTerrainX stays.  In the ball variant the segments built before the
\* failing one are in the world already (leak, handle 0).
generateTerrainChunk_throws(s, leak) ==
    [s EXCEPT !.world = IF leak THEN @ \cup {0} ELSE @,
              !.lastUpdate.failed = TRUE]

updateGame_throws(s, v, leak) ==
    LET s0 == [s EXCEPT !.lastUpdate = NoUpdate]
        s1 == IF v = "ball" THEN rollLogic(stage("drive", s0))
                            ELSE autoDrive(stage("drive", s0))
        x == IF v = "ball" THEN s1.playerBody.position.x
                           ELSE s1.chassis.position.x
        s2 == camera(stage("camera", s1), x)
    IN  generateTerrainChunk_throws(stage("advance", s2), leak)

UpdateGameThrows ==
    /\ pc = "tick"
    /\ VehicleX > lastTerrainX - chunkWidth(variant) * 2
    /\ \E leak \in (IF variant = "ball" THEN BOOLEAN ELSE {FALSE}) :
         Commit(updateGame_throws(Globals, variant, leak))
    /\ frame' = NoFrame
    /\ UNCHANGED <<variant, pc, overspeed, force, keydowns, canvasHeight>>

NextFail == Next \/ UpdateGameThrows

\* The game with collider constructors that can throw.
SpecFail == Init /\ [][NextFail]_vars

----------------------------------------------------------------------------
(* Properties of the chunk queue *)

\* C1: the live chunks are ordered by strictly increasing spanStart and each
\* chunk ends where the next one starts; a chunk spans chunkWidth from the
\* edge at which it was generated, and the last one ends at lastTerrainX.
C1_ChunkOrdering ==
    /\ \A i \in 1..(Len(terrainBodies) - 1) :
         /\ terrainBodies[i].spanStart < terrainBodies[i + 1].spanStart
         /\ terrainBodies[i].spanEnd = terrainBodies[i + 1].spanStart
    /\ \A i \in 1..Len(terrainBodies) :
         terrainBodies[i].spanEnd
             = terrainBodies[i].spanStart + chunkWidth(variant)
    /\ Len(terrainBodies) > 0
         => terrainBodies[Len(terrainBodies)].spanEnd = lastTerrainX

C1_Witness ==
    /\ generatedCount >= 7
    /\ Len(terrainBodies) = 5
    /\ terrainBodies[1].id = 3

\* C2: after every updateGame step at most 5 chunks are live, although the
\* cleanup is a single if.
C2_BoundedRetention == Len(terrainBodies) <= 5

C2_Witness ==
    /\ pc = "update"
    /\ lastUpdate.generated
    /\ lastUpdate.evicted
    /\ Len(terrainBodies) = 5

\* C3: as long as no integration step has moved the vehicle by more than
\* chunkWidth, the generated edge is not behind the vehicle.
C3_NoStarvation == (~overspeed) => lastTerrainX - VehicleX >= 0

C3_Witness ==
    /\ ~overspeed
    /\ generatedCount > 3
    /\ pc = "tick"
    /\ lastTerrainX - VehicleX = chunkWidth(variant)

\* C4: a chunk evicted by updateGame never has the vehicle's horizontal
\* position inside its span.
C4_EvictNotUnderVehicle ==
    (pc = "update" /\ lastUpdate.evicted)
        => ~(oldChunk.spanStart <= VehicleX /\ VehicleX < oldChunk.spanEnd)

C4_Witness ==
    /\ pc = "update"
    /\ lastUpdate.evicted
    /\ overspeed
    /\ VehicleX >= oldChunk.spanEnd

\* C5: an eviction removes the head of the queue, which has the smallest
\* spanStart of all live chunks, and chunks leave in the order they were
\* generated; once the 6th chunk has been generated 5 chunks are live and
\* the one removed is the first one generated.
C5_Fifo ==
    /\ [][(pc' = "update" /\ lastUpdate'.evicted)
            => /\ oldChunk' = Head(terrainBodies)
               /\ \A i \in 1..Len(terrainBodies') :
                    oldChunk'.spanStart < terrainBodies'[i].spanStart
               /\ oldChunk'.id = oldChunk.id + 1
               /\ Len(terrainBodies') = 5]_vars
    /\ [](generatedCount = 6 => (Len(terrainBodies) = 5 /\ oldChunk.id = 1))

C5_Witness ==
    /\ pc = "update"
    /\ lastUpdate.evicted
    /\ oldChunk.id = 2
    /\ generatedCount = 7

----------------------------------------------------------------------------
(* Properties of one updateGame step *)

UpdateStep == pc = "tick" /\ pc' = "update"

\* What C6 says of one step, for a first edge after init() of edge0 and a
\* first generation threshold of x0 in the variant with chunkWidth = 1000.
AdvanceRule(edge0, x0) ==
    UpdateStep =>
      LET W == IF variant = "ball" THEN 1000 ELSE 800
          new == [spanStart |-> lastTerrainX, spanEnd |-> lastTerrainX + W,
                  id |-> generatedCount + 1]
      IN  /\ IF VehicleX > lastTerrainX - 2 * W
             THEN /\ generatedCount' = generatedCount + 1
                  /\ lastTerrainX' = lastTerrainX + W
                  /\ terrainBodies'[Len(terrainBodies')] = new
                  /\ \A i \in 1..Len(terrainBodies) :
                       \E j \in 1..Len(terrainBodies') :
                         terrainBodies'[j] = terrainBodies[i]
                           \/ oldChunk' = terrainBodies[i]
             ELSE /\ generatedCount' = generatedCount
                  /\ lastTerrainX' = lastTerrainX
                  /\ terrainBodies' = terrainBodies
          /\ (variant = "ball" /\ generatedCount = 3)
               => /\ lastTerrainX = edge0
                  /\ (generatedCount' = 4) = (VehicleX > x0)

\* C6 (as amended): a step generates exactly one chunk
\* [lastTerrainX, lastTerrainX + chunkWidth) and advances lastTerrainX by
\* chunkWidth if vehicleX > lastTerrainX - 2 * chunkWidth, and generates
\* none otherwise; in the ball variant (chunkWidth 1000, lastTerrainX
\* starting at -800) init() leaves lastTerrainX = 2200, nothing is generated
\* while x <= 200 and the first step with x = 201 generates the 4th chunk.
C6_Advance == [][AdvanceRule(2200, 200)]_vars

C6_Witness ==
    /\ variant = "ball"
    /\ pc = "update"
    /\ lastUpdate.generated
    /\ generatedCount = 4
    /\ VehicleX = 201

\* C6 as stated: init() leaves lastTerrainX = 3000, nothing is generated
\* while x <= 1000 and the first step with x = 1001 generates the 4th chunk.
C6_Original == [][AdvanceRule(3000, 1000)]_vars

\* C7: ball variant: a step applies the torque ballTorque if and only if the
\* angular velocity is strictly below 0.4; at or above it the torque stays
\* zero, and the step leaves the angular velocity as it was (unless the
\* fall reset of the same step zeroes it).
C7_SoftSpeedCap ==
    [][(UpdateStep /\ variant = "ball")
         => /\ playerBody'.torque
                 = (IF playerBody.angularVelocity < 40 THEN 50 ELSE 0)
            /\ (~lastUpdate'.reset)
                 => playerBody'.angularVelocity = playerBody.angularVelocity]_vars

C7_Witness ==
    /\ variant = "ball"
    /\ pc = "update"
    /\ ~lastUpdate.reset
    /\ playerBody.angularVelocity = 45
    /\ playerBody.torque = 0

----------------------------------------------------------------------------
(* Properties of the fall reset *)

checkFallAndReset(s) == IF variant = "ball" THEN resetBall(s) ELSE resetCar(s)

\* C8: running the fall check twice in a row gives the state the first run
\* gave: the first run leaves position.y at 0 when it fires, and the second
\* run changes nothing.  Both variants.
C8_ResetIdempotent ==
    LET once == checkFallAndReset(Globals)
        twice == checkFallAndReset(once)
    IN  /\ twice = once
        /\ VehicleY > 2000
             => (IF variant = "ball" THEN once.playerBody.position.y
                                     ELSE once.chassis.position.y) = 0

C8_Witness ==
    /\ variant = "car"
    /\ pc = "update"
    /\ lastUpdate.reset
    /\ checkFallAndReset(Globals) = Globals

\* C9: ball variant: when position.y > 2000 at the reset check the ball is
\* put at (x, 0) with zero linear and angular velocity, and the chunk queue
\* and lastTerrainX are what the step had made of them before the check;
\* when position.y <= 2000 the check changes nothing.
C9_BallReset ==
    [][(UpdateStep /\ variant = "ball")
         => LET s == beforeReset_ball(Globals)
            IN  IF playerBody.position.y > 2000
                THEN /\ playerBody'.position = Vec(playerBody.position.x, 0)
                     /\ playerBody'.velocity = Zero
                     /\ playerBody'.angularVelocity = 0
                     /\ playerBody'.torque = s.playerBody.torque
                     /\ terrainBodies' = s.terrainBodies
                     /\ lastTerrainX' = s.lastTerrainX
                     /\ world' = s.world
                     /\ scrollOffset' = s.scrollOffset
                ELSE /\ ~lastUpdate'.reset
                     /\ Commit(s)]_vars

C9_Witness ==
    /\ variant = "ball"
    /\ pc = "update"
    /\ lastUpdate.reset
    /\ lastUpdate.generated
    /\ playerBody.position = Vec(1201, 0)
    /\ playerBody.velocity = Zero
    /\ playerBody.angularVelocity = 0

\* C10: car variant: after a fall reset the linear and angular velocity of
\* the chassis and of both wheels are zero.
C10_CarResetZeroesAll ==
    (variant = "car" /\ pc = "update" /\ lastUpdate.reset)
        => /\ chassis.velocity = Zero
           /\ chassis.angularVelocity = 0
           /\ carWheelB.velocity = Zero
           /\ carWheelB.angularVelocity = 0
           /\ carWheelF.velocity = Zero
           /\ carWheelF.angularVelocity = 0

----------------------------------------------------------------------------
(* Properties of the car rig *)

\* C11: car variant: a step either repositions chassis, rear wheel and front
\* wheel together (chassis at (x, 0), wheels at (x - 20, 20) and
\* (x + 20, 20)) or repositions none of them; updateGame runs to completion,
\* so the integration and the callbacks between ticks see no other state.
C11_AtomicCarReset ==
    [][(UpdateStep /\ variant = "car")
         => IF chassis.position.y > 2000
            THEN /\ chassis'.position = Vec(chassis.position.x, 0)
                 /\ carWheelB'.position = Vec(chassis.position.x - 20, 20)
                 /\ carWheelF'.position = Vec(chassis.position.x + 20, 20)
            ELSE /\ chassis'.position = chassis.position
                 /\ carWheelB'.position = carWheelB.position
                 /\ carWheelF'.position = carWheelF.position]_vars

C11_Witness ==
    /\ variant = "car"
    /\ pc = "update"
    /\ lastUpdate.reset
    /\ chassis.angle = 180
    /\ chassis.position = Vec(801, 0)
    /\ carWheelB.position = Vec(781, 20)
    /\ carWheelF.position = Vec(821, 20)

SpeedSq(v) == v.x * v.x + v.y * v.y

\* C12: car variant: after the drive of a step both wheels turn at carSpeed
\* and the linear speed of each wheel is at most a fixed maximum (taken as
\* 10 here, the spec and the code name no value).
C12_DriveClampsWheels ==
    (variant = "car" /\ pc = "update")
        => /\ carWheelB.angularVelocity = 5
           /\ carWheelF.angularVelocity = 5
           /\ SpeedSq(carWheelB.velocity) <= 10 * 10
           /\ SpeedSq(carWheelF.velocity) <= 10 * 10

\* Rotation of a local offset by the chassis angle (degrees, quarter turns)
Rotate(v, a) ==
    CASE a % 360 = 0 -> v
      [] a % 360 = 90 -> Vec(-v.y, v.x)
      [] a % 360 = 180 -> Vec(-v.x, -v.y)
      [] a % 360 = 270 -> Vec(v.y, -v.x)

\* Squared distance from the attachment point pointA of body c to wheel w
AxleSq(c, w, pointA) ==
    LET a == Add(c.position, Rotate(pointA, c.angle))
    IN  SpeedSq(Vec(w.position.x - a.x, w.position.y - a.y))

\* C20: car variant: right after a fall reset each suspension constraint
\* spans the distance it had at creation, whatever the chassis angle.
C20_ResetKeepsAxleLength ==
    (variant = "car" /\ pc = "update" /\ lastUpdate.reset)
        => /\ AxleSq(chassis, carWheelB, Vec(-20, 10))
                = AxleSq(createChassis(0, 0), createWheel(-20, 0), Vec(-20, 10))
           /\ AxleSq(chassis, carWheelF, Vec(20, 10))
                = AxleSq(createChassis(0, 0), createWheel(20, 0), Vec(20, 10))

----------------------------------------------------------------------------
(* Order of a tick, colliders in the world *)

\* C15 (as amended): a tick drives, computes the camera offset, generates,
\* evicts and then checks the fall reset; the eviction sees the chunk
\* generated in the same tick, and the camera offset, although computed
\* before the reset, equals -x + width / 2 for the vehicle after the reset.
C15_TickOrder ==
    pc = "update"
        => /\ lastUpdate.order = <<"drive", "camera", "advance", "evict", "reset">>
           /\ scrollOffset = (-VehicleX) + (canvasWidth \div 2)
           /\ (lastUpdate.generated /\ generatedCount > 5)
                => (lastUpdate.evicted /\ Len(terrainBodies) = 5)

C15_Witness ==
    /\ pc = "update"
    /\ lastUpdate.generated
    /\ lastUpdate.evicted
    /\ lastUpdate.reset
    /\ terrainBodies[Len(terrainBodies)].id = generatedCount

\* C15 as stated: drive, generate, evict, fall reset, then camera.
C15_Original ==
    pc = "update"
        => lastUpdate.order = <<"drive", "advance", "evict", "reset", "camera">>

\* C19: the ground colliders in the world are exactly those of the live
\* chunks, so there are never more than 5 chunks' worth of them.
C19_WorldMatchesQueue ==
    /\ world = {terrainBodies[i].id : i \in 1..Len(terrainBodies)}
    /\ Cardinality(world) <= 5

C19_Witness ==
    /\ pc = "update"
    /\ lastUpdate.evicted
    /\ oldChunk.id = 2
    /\ ~(oldChunk.id \in world)
    /\ Cardinality(world) = 5

----------------------------------------------------------------------------
(* Properties of jump *)

JumpStep == keydowns' = keydowns + 1

\* C13: car variant: every jump adds the impulse (0, -jumpForce) to the
\* chassis and changes the chassis angular velocity (pitch-up nudge).
C13_CarJumpNudges ==
    [][(JumpStep /\ variant = "car")
         => /\ force' = Add(force, Vec(0, -30))
            /\ chassis'.angularVelocity # chassis.angularVelocity]_vars

\* C14: every Space key-down adds the impulse (0, -jumpForce) to the vehicle,
\* whatever its contact, vertical velocity or the jumps before it, so k
\* key-downs between two integrations leave k impulses; a key-down can be
\* taken in every state between ticks, and it changes neither the chunk
\* queue nor lastTerrainX (nor the bodies).
C14_JumpAlways ==
    /\ [][JumpStep
            => /\ force' = Add(force, Vec(0, IF variant = "ball" THEN -35 ELSE -30))
               /\ UNCHANGED <<terrainBodies, lastTerrainX, world, playerBody,
                              chassis, carWheelB, carWheelF>>]_vars
    /\ [](force = Vec(0, keydowns * (IF variant = "ball" THEN -35 ELSE -30)))
    /\ []((pc = "tick" /\ keydowns < MaxJumps) => ENABLED (JumpBall \/ JumpCar))

C14_Witness ==
    /\ variant = "ball"
    /\ pc = "tick"
    /\ keydowns = 2
    /\ force = Vec(0, -70)
    /\ playerBody.velocity.y # 0
    /\ playerBody.position.y > 2000

----------------------------------------------------------------------------
(* What a render frame sees *)

\* C16 (as amended): in every state the integration sees, i.e. right after
\* updateGame, position.y is at most 2000.  (A frame drawn after the
\* integration and before the next updateGame can see a larger y.)
C16_BelowThresholdAtIntegration ==
    pc = "update" => VehicleY <= 2000

C16_Witness ==
    /\ pc = "update"
    /\ lastUpdate.reset
    /\ VehicleY = 0
    /\ canvasHeight = 768

\* C16 as stated: neither the integration nor a render frame sees
\* position.y above 2000.
C16_Original ==
    /\ pc = "update" => VehicleY <= 2000
    /\ frame.drawn => VehicleY <= 2000

\* C17 (as amended): a render frame uses -y + height / 2 + 100 for the y and
\* the canvas height at that frame, and the scrollOffset last written by
\* updateGame, which is -x + width / 2 for the x and the canvas width when
\* updateGame ran.
C17_CameraOffsets ==
    /\ frame.drawn
         => /\ frame.scrollY = (-VehicleY) + (canvasHeight \div 2) + 100
            /\ frame.scrollX = scrollOffset
    /\ pc = "update" => scrollOffset = (-VehicleX) + (canvasWidth \div 2)

C17_Witness ==
    /\ frame.drawn
    /\ canvasWidth = 1024
    /\ generatedCount > 3
    /\ frame.scrollX # (-VehicleX) + (canvasWidth \div 2)
    /\ frame.scrollY = (-VehicleY) + 384 + 100

\* C17 as stated: a render frame uses -x + width / 2 and -y + height / 2 + 100
\* for the vehicle position and the canvas size at that frame.
C17_Original ==
    frame.drawn
        => /\ frame.scrollX = (-VehicleX) + (canvasWidth \div 2)
           /\ frame.scrollY = (-VehicleY) + (canvasHeight \div 2) + 100

----------------------------------------------------------------------------
(* A failing collider constructor *)

\* C18: when the construction of a chunk's colliders fails, the chunk is
\* skipped (nothing pushed, lastTerrainX kept, the queue still ordered) and
\* the rest of the tick still runs: the cleanup and the fall reset are
\* reached, so the vehicle is not left above the threshold, and the
\* integration follows.
C18_SkipAndContinue ==
    lastUpdate.failed
        => /\ \A i \in 1..(Len(terrainBodies) - 1) :
                terrainBodies[i].spanEnd = terrainBodies[i + 1].spanStart
           /\ terrainBodies[Len(terrainBodies)].spanEnd = lastTerrainX
           /\ lastUpdate.order = <<"drive", "camera", "advance", "evict", "reset">>
           /\ VehicleY <= 2000
           /\ pc = "update"

====
